---- MODULE Spec2Model ----
(***************************************************************************)
(* FengyueSimulator: the conversation turn engine (chat_core.ChatBot), the *)
(* local API handlers that drive it (api_registry.register_chat_apis) and  *)
(* the autosave ring kept in the save/ directory.                          *)
(*                                                                         *)
(* Strings are sequences of one-character strings, so that Python's string *)
(* concatenation is \o and the empty string is << >>.  A file that may or  *)
(* may not exist, and an attribute that may or may not be set, is a        *)
(* sequence of length at most one: << >> when missing, <<v>> when present. *)
(***************************************************************************)
EXTENDS Integers, Sequences, FiniteSets, TLC

\* ---------------------------------------------------------------- bounds
\* requests served by the local API in a run of the conversation engine
MaxOps == 3
\* requests served by the local API in a run of the autosave ring
MaxSnaps == 7
\* requests served by the local API in a run of the persona catalog
MaxPersonaOps == 3
\* requests served by the local API in a run with failing snapshots
MaxSessionOps == 2
\* requests served by the local API in a run of the personas with removals
MaxRemovalOps == 3
\* requests served by the local API in a run of the ring with deleted files
MaxRingOps == 8
\* requests served by the local API in a run of the named saves
MaxSaveOps == 3
\* the process is stopped and restarted at most this many times
MaxCrashes == 1

\* ------------------------------------------------------------- constants
\* api_registry.load_chat: chat_data.get('memory_rounds', 6)
DefaultMemoryRounds == 6
\* chat_core.auto_save: the oldest file is autosave_5.json
OldestSlot == 5
\* chat_core.stream_chat: response.status_code != 200
StatusOK == 200

\* --------------------------------------------------------------- strings
NL == <<"\n">>
s_hi == <<"h", "i">>
s_hello == <<"h", "e", "l", "l", "o">>
s_bye == <<"b", "y", "e">>
s_see_ya == <<"s", "e", "e", " ", "y", "a">>
s_how_are_you == <<"h", "o", "w", " ", "a", "r", "e", " ", "y", "o", "u">>
s_You_are_Aria == <<"Y", "o", "u", " ", "a", "r", "e", " ", "A", "r", "i", "a", ".">>
s_User == <<"U", "s", "e", "r", ":", " ">>
s_key == <<"s", "k">>
s_a_png == <<"a", ".", "p", "n", "g">>
s_b_GIF == <<"b", ".", "G", "I", "F">>
s_n_txt == <<"n", ".", "t", "x", "t">>

Turn(r, c) == [role |-> r, content |-> c]

\* ------------------------------------------------------------ JSON strings
BACKSLASH == "\\"
QUOTE == "\""
NEWLINE == "\n"

\* (variant: the line feed is written to the file as it is)
escape_char_raw_newline(c) ==
    IF c = BACKSLASH THEN <<BACKSLASH, BACKSLASH>>
    ELSE IF c = QUOTE THEN <<BACKSLASH, QUOTE>>
    ELSE <<c>>

\* json.dump of one character of a str with ensure_ascii=False: backslash,
\* quote and line feed are escaped
escape_char(c) ==
    IF c = BACKSLASH THEN <<BACKSLASH, BACKSLASH>>
    ELSE IF c = QUOTE THEN <<BACKSLASH, QUOTE>>
    ELSE IF c = NEWLINE THEN <<BACKSLASH, "n">>
    ELSE <<c>>

\* json.dump of a str: the text between the quotes of the JSON string
RECURSIVE json_escape(_)
json_escape(str) ==
    IF str = << >> THEN << >>
    ELSE escape_char(Head(str)) \o json_escape(Tail(str))

\* json.load of the text between the quotes of a JSON string: an escape is
\* replaced by its character; a bare quote, a bare line feed, an unknown
\* escape or a backslash at the end of the text is a JSONDecodeError
RECURSIVE json_unescape(_)
json_unescape(txt) ==
    IF txt = << >> THEN [ok |-> TRUE, str |-> << >>]
    ELSE IF Head(txt) = BACKSLASH
         THEN IF Len(txt) < 2 \/ txt[2] \notin {BACKSLASH, QUOTE, "n"}
              THEN [ok |-> FALSE, str |-> << >>]
              ELSE LET r == json_unescape(SubSeq(txt, 3, Len(txt)))
                   IN  [ok |-> r.ok,
                        str |-> <<IF txt[2] = "n" THEN NEWLINE ELSE txt[2]>>
                                \o r.str]
    ELSE IF Head(txt) \in {QUOTE, NEWLINE}
         THEN [ok |-> FALSE, str |-> << >>]
    ELSE LET r == json_unescape(Tail(txt))
         IN  [ok |-> r.ok, str |-> <<Head(txt)>> \o r.str]

\* the keys of a persona document whose values are strings
StringFields == {"pre_prompt", "pre_text", "post_text"}

\* json.dump of a persona document: what the file holds, key by key
json_dump(d) ==
    [f \in DOMAIN d |-> IF f \in StringFields THEN json_escape(d[f]) ELSE d[f]]

\* json.load of a persona file: ok is FALSE when json.load raises
json_load(file) ==
    [ok |-> \A f \in DOMAIN file \cap StringFields : json_unescape(file[f]).ok,
     doc |-> [f \in DOMAIN file |->
                 IF f \in StringFields THEN json_unescape(file[f]).str
                 ELSE file[f]]]

\* ------------------------------------------------------- persona documents
\* chat_core.load_prompt, the configuration created when neither the named
\* file nor prompts/default_prompt.json exists (the two Chinese literals are
\* written in ASCII: "You are a helpful AI assistant." / "User:")
BuiltinPrompt ==
    [pre_prompt |-> <<"A", "I">>, pre_text |-> <<"U", ":">>, post_text |-> << >>]

AriaPrompt ==
    [pre_prompt |-> s_You_are_Aria, pre_text |-> s_User, post_text |-> << >>]

BarePrompt ==
    [pre_prompt |-> << >>, pre_text |-> << >>, post_text |-> <<"!">>]

\* a persona whose preamble has two lines, a quote and a backslash
VersePrompt ==
    [pre_prompt |-> <<"a", NEWLINE, QUOTE, BACKSLASH, "n">>,
     pre_text |-> << >>, post_text |-> << >>]

\* an entry of world_book in a persona document, {key: "wb_OR_hi",
\* key_region: 2, value_region: 2, value: "Lore"}, with the key and the two
\* bit masks written out: the rule looks for "hi" in the user input and its
\* value belongs to the text before the user input
WorldRule ==
    [key_mode |-> "or", keys |-> {s_hi}, key_region |-> {"user_input"},
     value_region |-> {"pre_text"}, value |-> <<"L", "o", "r", "e">>]

\* a persona that carries the world rule
LorePrompt ==
    [pre_prompt |-> << >>, pre_text |-> s_User, post_text |-> << >>,
     world_book |-> <<WorldRule>>]

\* a file of prompts/ cut off in the middle of an escape: json.load raises
BrokenFile ==
    [pre_prompt |-> <<"Y", "o", BACKSLASH>>, pre_text |-> << >>,
     post_text |-> << >>]

\* the files of prompts/ (name without .json)
PromptNames == {"default", "default_prompt", "aria", "bare", "lore", "broken"}

InitialPrompts ==
    [n \in PromptNames |->
        IF n = "aria" THEN <<json_dump(AriaPrompt)>>
        ELSE IF n = "bare" THEN <<json_dump(BarePrompt)>>
        ELSE IF n = "lore" THEN <<json_dump(LorePrompt)>>
        ELSE IF n = "broken" THEN <<BrokenFile>>
        ELSE << >>]

\* the documents the front end sends to prompts/save
PromptDocs == {AriaPrompt, VersePrompt}

\* ---------------------------------------------------------- save documents
\* a document of save/: chat_history, prompt_name and, when the key is in
\* the file, memory_rounds; id numbers the rotation that wrote it (0 for a
\* file that no rotation wrote)
SaveDoc(i, h, p, m) ==
    [id |-> i, chat_history |-> h, prompt_name |-> p, memory_rounds |-> m]

\* a named save in the documented snapshot format, present in save/
AriaChat ==
    SaveDoc(0,
            <<Turn("user", s_hi), Turn("assistant", s_hello),
              Turn("user", s_bye), Turn("assistant", s_see_ya)>>,
            "aria", <<2>>)

SaveNames == {"aria_chat", "new_chat"}

InitialSaves ==
    [n \in SaveNames |-> IF n = "aria_chat" THEN <<AriaChat>> ELSE << >>]

\* the autosave files: slot 0 is autosave.json, slot i is autosave_i.json
Slots == 0..OldestSlot

EmptyRing == [i \in Slots |-> << >>]

\* ------------------------------------------------------------ user inputs
UserInputs == {s_hi, s_how_are_you}

ApiKeys == {<< >>, s_key}

\* --------------------------------------------------------- upstream lines
Line(k, d) == [kind |-> k, delta |-> d]

\* the bodies a 200 response can stream: "content" is a data: line whose
\* JSON carries choices[0].delta.content, "done" is data: [DONE],
\* "malformed" is a data: line that is not JSON, "blank" is an empty or
\* non-data line
Streams ==
    { <<Line("content", <<"o">>), Line("malformed", << >>),
        Line("content", <<"k">>), Line("done", << >>)>>,
      <<Line("blank", << >>), Line("content", s_see_ya)>>,
      <<Line("malformed", << >>), Line("done", << >>), Line("content", <<"x">>)>>,
      <<Line("content", s_a_png \o s_b_GIF), Line("content", s_n_txt)>> }

\* what requests.post returns: a status other than 200, a 200 with a body,
\* or an exception (connection refused, timeout)
Responses ==
    {[kind |-> "status", status |-> 500, lines |-> << >>],
     [kind |-> "exception", status |-> 0, lines |-> << >>]}
    \cup {[kind |-> "status", status |-> StatusOK, lines |-> l] : l \in Streams}

\* a fragment handed to the consumer; kind records the yield statement it
\* comes from: "text" (line 193), "error" (lines 144, 175, 213), "image"
\* (line 205, where text is the file name inside the brackets)
Frag(k, t) == [kind |-> k, text |-> t]

\* ------------------------------------------------------------- resource/
\* os.listdir('resource'), in the order the directory yields its entries
ResourceDir == <<s_a_png, s_n_txt, s_b_GIF>>

ImageSuffixes ==
    { <<".", "p", "n", "g">>, <<".", "j", "p", "g">>, <<".", "j", "p", "e", "g">>,
      <<".", "g", "i", "f">>, <<".", "b", "m", "p">> }

\* str.lower() on the letters the file names use
LowerOf == [c \in {"G", "I", "F"} |-> IF c = "G" THEN "g"
                                     ELSE IF c = "I" THEN "i" ELSE "f"]

lower(str) ==
    [i \in 1..Len(str) |-> IF str[i] \in DOMAIN LowerOf THEN LowerOf[str[i]]
                           ELSE str[i]]

\* str.endswith(suffix)
endswith(str, suffix) ==
    /\ Len(suffix) <= Len(str)
    /\ SubSeq(str, Len(str) - Len(suffix) + 1, Len(str)) = suffix

\* sub in str
Contains(str, sub) ==
    \E i \in 1..(Len(str) - Len(sub) + 1) :
        SubSeq(str, i, i + Len(sub) - 1) = sub

IsImageName(file) == \E x \in ImageSuffixes : endswith(lower(file), x)

\* (variant: the search stops at the first file found)
detect_images_in_response_first(resp) ==
    LET found == SelectSeq(ResourceDir,
                           LAMBDA file : IsImageName(file) /\ Contains(resp, file))
    IN  IF found = << >> THEN << >> ELSE <<Head(found)>>

\* chat_core.detect_images_in_response: every file of resource/ with an
\* image suffix whose name occurs in the response
detect_images_in_response(resp) ==
    SelectSeq(ResourceDir,
              LAMBDA file : IsImageName(file) /\ Contains(resp, file))

VARIABLES
    chat_history,       \* ChatBot.chat_history
    current_prompt,     \* ChatBot.current_prompt
    prompt_config,      \* ChatBot.prompt_config
    api_key,            \* ChatBot.api_key
    memory_rounds,      \* ChatBot.memory_rounds: << >> until load_chat sets it
    prompts,            \* prompts/*.json
    config,             \* config/api_key.json
    saves,              \* save/<name>.json, the named saves
    ring,               \* save/autosave.json, save/autosave_1..5.json
    pc,                 \* "idle", "posted", "suspended", "rotating"
    rotStep,            \* position inside auto_save while pc = "rotating"
    user_input,         \* argument of the stream_chat in progress or last run
    request,            \* data["messages"] of the last POST
    lines,              \* lines of the response not read yet
    assistant_response, \* stream_chat's accumulator
    fragments,          \* what stream_chat has yielded in this turn
    op,                 \* the handler that ran last (or is running)
    outcome,            \* how the last turn ended
    histBefore,         \* chat_history when the last handler was entered
    ringBefore,         \* ring when the last rotation began
    snapCount,          \* rotations begun since the ring was empty
    posted,             \* the last turn issued its POST
    budget,             \* requests the local API will still serve
    crashes,            \* process restarts
    stoppedAt,          \* pc at the last process stop
    body,               \* every line of the response of the last POST
    image_files,        \* detected images stream_chat has still to yield
    response,           \* "status" of the dict the last handler returned
    failedAt            \* step at which the last auto_save raised, if it did

vars == <<chat_history, current_prompt, prompt_config, api_key, memory_rounds,
          prompts, config, saves, ring, pc, rotStep, user_input, request,
          lines, assistant_response, fragments, op, outcome, histBefore,
          ringBefore, snapCount, posted, budget, crashes, stoppedAt, body,
          image_files, response, failedAt>>

disk == <<prompts, config, saves, ring>>
turnVars == <<user_input, request, lines, assistant_response, fragments, outcome,
              posted, body, image_files>>

\* ------------------------------------------------------------ load_prompt
\* os.path.exists of prompts/<name>.json
Exists(ps, name) == name \in DOMAIN ps /\ ps[name] # << >>

\* (variant: without default_prompt.json the load installs nothing)
load_prompt_not_found(ps, name, cfg, cur) ==
    IF Exists(ps, name)
    THEN IF json_load(ps[name][1]).ok
         THEN [prompt_config |-> json_load(ps[name][1]).doc,
               current_prompt |-> name, ok |-> TRUE]
         ELSE [prompt_config |-> cfg, current_prompt |-> cur, ok |-> FALSE]
    ELSE IF Exists(ps, "default_prompt")
    THEN IF json_load(ps["default_prompt"][1]).ok
         THEN [prompt_config |-> json_load(ps["default_prompt"][1]).doc,
               current_prompt |-> "default", ok |-> FALSE]
         ELSE [prompt_config |-> cfg, current_prompt |-> cur, ok |-> FALSE]
    ELSE [prompt_config |-> cfg, current_prompt |-> cur, ok |-> FALSE]

\* chat_core.load_prompt called while the configuration is cfg and the
\* active name is cur: the named file if it exists, otherwise
\* default_prompt.json or the built-in configuration under the name
\* "default"; when json.load raises, the except branch returns False and
\* nothing has been assigned
load_prompt(ps, name, cfg, cur) ==
    IF Exists(ps, name)
    THEN IF json_load(ps[name][1]).ok
         THEN [prompt_config |-> json_load(ps[name][1]).doc,
               current_prompt |-> name, ok |-> TRUE]
         ELSE [prompt_config |-> cfg, current_prompt |-> cur, ok |-> FALSE]
    ELSE IF Exists(ps, "default_prompt")
    THEN IF json_load(ps["default_prompt"][1]).ok
         THEN [prompt_config |-> json_load(ps["default_prompt"][1]).doc,
               current_prompt |-> "default", ok |-> FALSE]
         ELSE [prompt_config |-> cfg, current_prompt |-> cur, ok |-> FALSE]
    ELSE [prompt_config |-> BuiltinPrompt, current_prompt |-> "default",
          ok |-> FALSE]

\* --------------------------------------------------------- build_messages
\* (variant: the user text set off from its wrapping by newlines)
build_messages_newlines(cfg, hist, u) ==
    (IF cfg.pre_prompt # << >>
     THEN <<Turn("system", cfg.pre_prompt)>>
     ELSE << >>)
    \o hist
    \o <<Turn("user", cfg.pre_text \o NL \o u \o NL \o cfg.post_text)>>

\* chat_core.build_messages: the system prompt when it is not empty, every
\* entry of chat_history, then the user text between pre_text and post_text
build_messages(cfg, hist, u) ==
    (IF cfg.pre_prompt # << >>
     THEN <<Turn("system", cfg.pre_prompt)>>
     ELSE << >>)
    \o hist
    \o <<Turn("user", cfg.pre_text \o u \o cfg.post_text)>>

\* ------------------------------------------------------------ stream_chat
\* (variant: [DONE] is passed over like a line without a delta)
RECURSIVE Advance_past_done(_)
Advance_past_done(ls) ==
    IF ls = << >> THEN [end |-> TRUE, delta |-> << >>]
    ELSE IF Head(ls).kind = "content"
         THEN [end |-> FALSE, delta |-> Head(ls).delta, rest |-> Tail(ls)]
    ELSE Advance_past_done(Tail(ls))

\* (variant: a payload that is not JSON leaves the loop)
RECURSIVE Advance_malformed_ends(_)
Advance_malformed_ends(ls) ==
    IF ls = << >> THEN [end |-> TRUE, delta |-> << >>]
    ELSE IF Head(ls).kind \in {"done", "malformed"}
         THEN [end |-> TRUE, delta |-> << >>]
    ELSE IF Head(ls).kind = "content"
         THEN [end |-> FALSE, delta |-> Head(ls).delta, rest |-> Tail(ls)]
    ELSE Advance_malformed_ends(Tail(ls))

\* the for loop over response.iter_lines() from one resumption of the
\* generator to its next yield: blank lines, lines without the data: prefix,
\* payloads that are not JSON and payloads without a content delta are passed
\* over; [DONE] and the end of the body leave the loop
RECURSIVE Advance(_)
Advance(ls) ==
    IF ls = << >> THEN [end |-> TRUE, delta |-> << >>]
    ELSE IF Head(ls).kind = "done" THEN [end |-> TRUE, delta |-> << >>]
    ELSE IF Head(ls).kind = "content"
         THEN [end |-> FALSE, delta |-> Head(ls).delta, rest |-> Tail(ls)]
    ELSE Advance(Tail(ls))

\* (variant: a server with one thread per request, a handler is entered
\* while another one is running)
Enter_threaded(name) ==
    /\ budget > 0
    /\ budget' = budget - 1
    /\ op' = name
    /\ histBefore' = chat_history
    /\ failedAt' = << >>

\* a request enters a handler of the local API: HTTPServer handles one
\* request at a time, and the generator of the previous turn is gone
Enter(name) ==
    /\ pc = "idle"
    /\ budget > 0
    /\ budget' = budget - 1
    /\ op' = name
    /\ histBefore' = chat_history
    /\ failedAt' = << >>

NoTurn ==
    /\ user_input' = << >>
    /\ request' = << >>
    /\ lines' = << >>
    /\ assistant_response' = << >>
    /\ fragments' = << >>
    /\ outcome' = "none"
    /\ posted' = FALSE
    /\ body' = << >>
    /\ image_files' = << >>

\* auto_save is entered
BeginAutoSave ==
    /\ pc' = "rotating"
    /\ rotStep' = 0
    /\ ringBefore' = ring
    /\ snapCount' = snapCount + 1

\* stream_chat's first test, if not self.api_key or len(self.api_key) == 0,
\* negated: a key has been set
has_key_unchecked(k) == TRUE

has_key(k) == k # << >>

\* (variant: the entry holds the text sent upstream)
user_entry_wrapped(cfg, u) == Turn("user", cfg.pre_text \o u \o cfg.post_text)

\* stream_chat, self.chat_history.append({"role": "user", "content":
\* user_input})
user_entry(cfg, u) == Turn("user", u)

\* stream_chat up to the status check.  With an empty key the generator
\* yields the error and returns.  Otherwise the user message is appended to
\* chat_history, the request is built from the history so extended and
\* posted; a status other than 200, or an exception of requests.post, yields
\* one error string and ends the generator.
StartTurn(u) ==
    /\ Enter("turn")
    /\ user_input' = u
    /\ assistant_response' = << >>
    /\ image_files' = << >>
    /\ response' = "stream"
    /\ UNCHANGED <<current_prompt, prompt_config, api_key, memory_rounds, disk,
                   rotStep, ringBefore, snapCount, crashes, stoppedAt>>
    /\ IF ~has_key(api_key)
       THEN /\ fragments' = <<Frag("error", "MissingCredential")>>
            /\ outcome' = "missing_credential"
            /\ request' = << >>
            /\ lines' = << >>
            /\ body' = << >>
            /\ posted' = FALSE
            /\ UNCHANGED <<chat_history, pc>>
       ELSE /\ chat_history' = Append(chat_history, user_entry(prompt_config, u))
            /\ request' = build_messages(prompt_config, chat_history', u)
            /\ posted' = TRUE
            /\ \E resp \in Responses :
                  /\ body' = resp.lines
                  /\ IF resp.kind = "exception"
                     THEN /\ fragments' = <<Frag("error", "TransportError")>>
                          /\ outcome' = "transport_error"
                          /\ lines' = << >>
                          /\ pc' = "idle"
                     ELSE IF resp.status # StatusOK
                     THEN /\ fragments' = <<Frag("error", "UpstreamError")>>
                          /\ outcome' = "upstream_error"
                          /\ lines' = << >>
                          /\ pc' = "idle"
                     ELSE /\ fragments' = << >>
                          /\ outcome' = "running"
                          /\ lines' = resp.lines
                          /\ pc' = "posted"

\* the end of stream_chat once the images have been yielded: auto_save
FinishTurn ==
    /\ outcome' = "completed"
    /\ BeginAutoSave

\* the consumer asks for the next fragment: the loop runs to its next yield
\* (line 193) or to its end; at the end the assistant turn is appended and
\* the images are detected; each image is one more yield (line 205), and
\* after the last one auto_save is entered.  An exception raised while a
\* line is read is caught at line 211 and yields the error string as the
\* last fragment.
Resume ==
    /\ pc \in {"posted", "suspended", "imaging"}
    /\ UNCHANGED <<current_prompt, prompt_config, api_key, memory_rounds, disk,
                   user_input, request, posted, op, histBefore, budget, crashes,
                   stoppedAt, body, response, failedAt>>
    /\ IF pc = "imaging"
       THEN /\ UNCHANGED <<chat_history, assistant_response, lines>>
            /\ IF image_files = << >>
               THEN FinishTurn /\ UNCHANGED <<fragments, image_files>>
               ELSE /\ fragments' =
                          Append(fragments, Frag("image", Head(image_files)))
                    /\ image_files' = Tail(image_files)
                    /\ UNCHANGED <<pc, outcome, rotStep, ringBefore, snapCount>>
       ELSE \E fail \in BOOLEAN :
          IF fail
          THEN /\ lines # << >>
               /\ fragments' = Append(fragments, Frag("error", "TransportError"))
               /\ outcome' = "transport_error"
               /\ lines' = << >>
               /\ pc' = "idle"
               /\ UNCHANGED <<chat_history, assistant_response, rotStep,
                              ringBefore, snapCount, image_files>>
          ELSE IF Advance(lines).end
          THEN /\ chat_history' =
                     Append(chat_history, Turn("assistant", assistant_response))
               /\ lines' = << >>
               /\ UNCHANGED assistant_response
               /\ LET found == detect_images_in_response(assistant_response)
                  IN  IF found = << >>
                      THEN FinishTurn /\ UNCHANGED <<fragments, image_files>>
                      ELSE /\ fragments' =
                                 Append(fragments, Frag("image", Head(found)))
                           /\ image_files' = Tail(found)
                           /\ pc' = "imaging"
                           /\ UNCHANGED <<outcome, rotStep, ringBefore,
                                          snapCount>>
          ELSE /\ assistant_response' = assistant_response \o Advance(lines).delta
               /\ fragments' = Append(fragments, Frag("text", Advance(lines).delta))
               /\ lines' = Advance(lines).rest
               /\ pc' = "suspended"
               /\ UNCHANGED <<chat_history, outcome, rotStep, ringBefore,
                              snapCount, image_files>>

\* platform_web.handle_stream_chat stops iterating (the write to the client
\* failed) while the generator is suspended at a yield: the generator is
\* closed, GeneratorExit is not an Exception, so nothing after the yield runs
Abandon ==
    /\ pc \in {"suspended", "imaging"}
    /\ pc' = "idle"
    /\ outcome' = IF pc = "suspended" THEN "abandoned" ELSE "abandoned_images"
    /\ lines' = << >>
    /\ UNCHANGED <<chat_history, current_prompt, prompt_config, api_key,
                   memory_rounds, disk, rotStep, user_input, request,
                   assistant_response, fragments, posted, op, histBefore,
                   ringBefore, snapCount, budget, crashes, stoppedAt, body,
                   image_files, response, failedAt>>

\* -------------------------------------------------------------- auto_save
Remove(rg, a) == [rg EXCEPT ![a] = << >>]

\* os.rename replaces the target when it exists (POSIX)
Rename(rg, a, b) == [rg EXCEPT ![b] = rg[a], ![a] = << >>]

\* (variant: the loop starts one file too low, for i in range(3, -1, -1))
LoopIndex_off_by_one(k) == OldestSlot - k - 1

\* for i in range(4, 0, -1): the file renamed at step k of the loop
LoopIndex(k) == OldestSlot - k

\* ChatBot.save_chat: the document written to autosave.json
save_data(n) == SaveDoc(n, chat_history, current_prompt, << >>)

\* (variant: autosave.json is not renamed before it is written again)
auto_save_no_shift(rg, k, n) ==
    IF k = 0 THEN Remove(rg, OldestSlot)
    ELSE IF k < OldestSlot
         THEN IF rg[LoopIndex(k)] # << >>
              THEN Rename(rg, LoopIndex(k), LoopIndex(k) + 1)
              ELSE rg
    ELSE IF k = OldestSlot THEN rg
    ELSE [rg EXCEPT ![0] = <<save_data(n)>>]

\* (variant: the oldest file is not removed before the renames)
auto_save_keep_oldest(rg, k, n) ==
    IF k = 0 THEN rg
    ELSE IF k < OldestSlot
         THEN IF rg[LoopIndex(k)] # << >>
              THEN Rename(rg, LoopIndex(k), LoopIndex(k) + 1)
              ELSE rg
    ELSE IF k = OldestSlot
         THEN IF rg[0] # << >> THEN Rename(rg, 0, 1) ELSE rg
    ELSE [rg EXCEPT ![0] = <<save_data(n)>>]

\* the file operation auto_save performs at step k: step 0 removes
\* autosave_5 if it exists, steps 1..4 rename autosave_i to autosave_i+1 for
\* i = 4..1 if it exists, step 5 renames autosave to autosave_1 if it
\* exists, step 6 writes autosave
auto_save(rg, k, n) ==
    IF k = 0 THEN Remove(rg, OldestSlot)
    ELSE IF k < OldestSlot
         THEN IF rg[LoopIndex(k)] # << >>
              THEN Rename(rg, LoopIndex(k), LoopIndex(k) + 1)
              ELSE rg
    ELSE IF k = OldestSlot
         THEN IF rg[0] # << >> THEN Rename(rg, 0, 1) ELSE rg
    ELSE [rg EXCEPT ![0] = <<save_data(n)>>]

LastStep == OldestSlot + 1

\* (variant: no try/except around the file operations of auto_save, the
\* exception reaches the except of stream_chat, which yields the error)
autosave_error_raised(frags, handler) ==
    IF handler = "turn" THEN Append(frags, Frag("error", "AutosaveError"))
    ELSE frags

\* chat_core.auto_save, except Exception: the message is printed and
\* auto_save returns; the caller's fragments are what they were
autosave_error(frags, handler) == frags

\* the file operation of step k is attempted only when its file exists; the
\* write of step 6 is always attempted
Attempts(rg, k) ==
    IF k = 0 THEN rg[OldestSlot] # << >>
    ELSE IF k < OldestSlot THEN rg[LoopIndex(k)] # << >>
    ELSE IF k = OldestSlot THEN rg[0] # << >>
    ELSE TRUE

\* os.remove, os.rename or open raises (permissions, disk full): the files
\* stay as they are, auto_save is left through its except branch
RotateFail ==
    /\ pc = "rotating"
    /\ Attempts(ring, rotStep)
    /\ pc' = "idle"
    /\ rotStep' = 0
    /\ failedAt' = <<rotStep>>
    /\ fragments' = autosave_error(fragments, op)
    /\ UNCHANGED <<chat_history, current_prompt, prompt_config, api_key,
                   memory_rounds, disk, user_input, request, lines,
                   assistant_response, outcome, posted, body, image_files, op,
                   histBefore, ringBefore, snapCount, budget, crashes,
                   stoppedAt, response>>

RotateStep ==
    /\ pc = "rotating"
    /\ ring' = auto_save(ring, rotStep, snapCount)
    /\ IF rotStep = LastStep
       THEN pc' = "idle" /\ rotStep' = 0
       ELSE pc' = "rotating" /\ rotStep' = rotStep + 1
    /\ UNCHANGED <<chat_history, current_prompt, prompt_config, api_key,
                   memory_rounds, prompts, config, saves, turnVars, op,
                   histBefore, ringBefore, snapCount, budget, crashes,
                   stoppedAt, response, failedAt>>

\* ------------------------------------------------------------ API handlers
\* (variant: the oldest entry is dropped)
clear_chat_oldest(hist) == IF hist = << >> THEN << >> ELSE Tail(hist)

\* ChatBot.clear_chat: self.chat_history = []
clear_chat(hist) == << >>

\* api_registry.clear_chat: chat_bot.clear_chat() then chat_bot.auto_save()
ClearChat ==
    /\ Enter("clear")
    /\ NoTurn
    /\ chat_history' = clear_chat(chat_history)
    /\ BeginAutoSave
    /\ response' = "success"
    /\ UNCHANGED <<current_prompt, prompt_config, api_key, memory_rounds, disk,
                   crashes, stoppedAt>>

\* (variant: the snapshot is taken whatever load_prompt returns)
SetPrompt_always_saves(name) ==
    /\ Enter("set_prompt")
    /\ NoTurn
    /\ LET lp == load_prompt(prompts, name, prompt_config, current_prompt)
       IN  /\ prompt_config' = lp.prompt_config
           /\ current_prompt' = lp.current_prompt
           /\ BeginAutoSave
           /\ response' = IF lp.ok THEN "success" ELSE "error"
    /\ UNCHANGED <<chat_history, api_key, memory_rounds, disk, crashes,
                   stoppedAt>>

\* api_registry.set_prompt: load_prompt, and auto_save when it succeeded
SetPrompt(name) ==
    /\ Enter("set_prompt")
    /\ NoTurn
    /\ LET lp == load_prompt(prompts, name, prompt_config, current_prompt)
       IN  /\ prompt_config' = lp.prompt_config
           /\ current_prompt' = lp.current_prompt
           /\ IF lp.ok
              THEN BeginAutoSave /\ response' = "success"
              ELSE /\ response' = "error"
                   /\ UNCHANGED <<pc, rotStep, ringBefore, snapCount>>
    /\ UNCHANGED <<chat_history, api_key, memory_rounds, disk, crashes,
                   stoppedAt>>

\* (variant: the target is replaced when it exists)
rename_prompt_overwrite(ps, old_name, new_name) ==
    IF Exists(ps, old_name)
    THEN [ok |-> TRUE,
          prompts |-> [n \in DOMAIN ps |->
                          IF n = new_name THEN ps[old_name]
                          ELSE IF n = old_name THEN << >>
                          ELSE ps[n]]]
    ELSE [ok |-> FALSE, prompts |-> ps]

\* storage_manager.rename_prompt: os.rename when the old file exists and the
\* new one does not, otherwise False
rename_prompt(ps, old_name, new_name) ==
    IF Exists(ps, old_name) /\ ~Exists(ps, new_name)
    THEN [ok |-> TRUE,
          prompts |-> [n \in DOMAIN ps |->
                          IF n = new_name THEN ps[old_name]
                          ELSE IF n = old_name THEN << >>
                          ELSE ps[n]]]
    ELSE [ok |-> FALSE, prompts |-> ps]

\* api_registry.rename_prompt: when the renamed persona is the active one,
\* the active name follows and auto_save runs
RenamePrompt(old_name, new_name) ==
    /\ Enter("rename_prompt")
    /\ NoTurn
    /\ LET r == rename_prompt(prompts, old_name, new_name)
       IN  /\ prompts' = r.prompts
           /\ response' = IF r.ok THEN "success" ELSE "error"
           /\ IF r.ok /\ current_prompt = old_name
              THEN current_prompt' = new_name /\ BeginAutoSave
              ELSE UNCHANGED <<current_prompt, pc, rotStep, ringBefore,
                               snapCount>>
    /\ UNCHANGED <<chat_history, prompt_config, api_key, memory_rounds, config,
                   saves, ring, crashes, stoppedAt>>

\* storage_manager.save_prompt: the document is written to prompts/<name>.json
save_prompt(ps, name, d) == [ps EXCEPT ![name] = <<json_dump(d)>>]

\* api_registry.save_prompt: the file is written, and read again when it is
\* the file of the active persona
SavePrompt(name, d) ==
    /\ Enter("save_prompt")
    /\ NoTurn
    /\ prompts' = save_prompt(prompts, name, d)
    /\ response' = "success"
    /\ LET lp == load_prompt(prompts', name, prompt_config, current_prompt)
       IN  IF current_prompt = name
           THEN /\ prompt_config' = lp.prompt_config
                /\ current_prompt' = lp.current_prompt
           ELSE UNCHANGED <<prompt_config, current_prompt>>
    /\ UNCHANGED <<chat_history, api_key, memory_rounds, config, saves, ring,
                   pc, rotStep, ringBefore, snapCount, crashes, stoppedAt>>

\* api_registry.set_api_key: the key is stored and written to the config file
SetApiKey(k) ==
    /\ Enter("set_api_key")
    /\ NoTurn
    /\ api_key' = k
    /\ config' = k
    /\ response' = "success"
    /\ UNCHANGED <<chat_history, current_prompt, prompt_config, memory_rounds,
                   prompts, saves, ring, pc, rotStep, ringBefore, snapCount,
                   crashes, stoppedAt>>

\* the file save/<name>.json
AutosaveNames == {"autosave"}

SaveFile(name) ==
    IF name = "autosave" THEN ring[0] ELSE saves[name]

\* api_registry.load_chat: history, memory_rounds (6 when the key is not in
\* the file) and the persona come from the file; no autosave follows
ApiLoadChat(name) ==
    /\ Enter("load_chat")
    /\ NoTurn
    /\ SaveFile(name) # << >>
    /\ chat_history' = SaveFile(name)[1].chat_history
    /\ memory_rounds' = IF SaveFile(name)[1].memory_rounds # << >>
                        THEN SaveFile(name)[1].memory_rounds
                        ELSE <<DefaultMemoryRounds>>
    /\ LET lp == load_prompt(prompts, SaveFile(name)[1].prompt_name,
                             prompt_config, current_prompt)
       IN  /\ prompt_config' = lp.prompt_config
           /\ current_prompt' = lp.current_prompt
    /\ response' = "success"
    /\ UNCHANGED <<api_key, disk, pc, rotStep, ringBefore, snapCount, crashes,
                   stoppedAt>>

\* the values the front end sends to memory_rounds/set
RoundsInputs == {-1, 0, 2}

\* the call chat_bot.set_memory_rounds(rounds): ChatBot defines no such
\* method, the call raises AttributeError and nothing is stored
set_memory_rounds(mr, rounds) == [raised |-> TRUE, memory_rounds |-> mr]

\* api_registry.set_memory_rounds: an exception other than ValueError leaves
\* the handler and handle_request answers status error
SetMemoryRounds(rounds) ==
    /\ Enter("set_memory_rounds")
    /\ NoTurn
    /\ memory_rounds' = set_memory_rounds(memory_rounds, rounds).memory_rounds
    /\ response' = IF set_memory_rounds(memory_rounds, rounds).raised
                   THEN "error" ELSE "success"
    /\ UNCHANGED <<chat_history, current_prompt, prompt_config, api_key, disk,
                   pc, rotStep, ringBefore, snapCount, crashes, stoppedAt>>

\* storage_manager.delete_prompt: the file is removed when it exists
delete_prompt(ps, name) ==
    IF Exists(ps, name)
    THEN [ok |-> TRUE, prompts |-> [ps EXCEPT ![name] = << >>]]
    ELSE [ok |-> FALSE, prompts |-> ps]

\* api_registry.delete_prompt: when the deleted persona is the active one,
\* chat_bot.load_prompt("default_prompt.json") and auto_save
DeletePrompt(name) ==
    /\ Enter("delete_prompt")
    /\ NoTurn
    /\ LET r == delete_prompt(prompts, name)
           lp == load_prompt(r.prompts, "default_prompt.json", prompt_config,
                             current_prompt)
       IN  /\ prompts' = r.prompts
           /\ response' = IF r.ok THEN "success" ELSE "error"
           /\ IF r.ok /\ current_prompt = name
              THEN /\ prompt_config' = lp.prompt_config
                   /\ current_prompt' = lp.current_prompt
                   /\ BeginAutoSave
              ELSE UNCHANGED <<prompt_config, current_prompt, pc, rotStep,
                               ringBefore, snapCount>>
    /\ UNCHANGED <<chat_history, api_key, memory_rounds, config, saves, ring,
                   crashes, stoppedAt>>

\* the autosave files by name, with their slot
RingFiles ==
    [n \in {"autosave", "autosave_1", "autosave_2", "autosave_3", "autosave_4",
            "autosave_5"} |->
        IF n = "autosave" THEN 0 ELSE IF n = "autosave_1" THEN 1
        ELSE IF n = "autosave_2" THEN 2 ELSE IF n = "autosave_3" THEN 3
        ELSE IF n = "autosave_4" THEN 4 ELSE OldestSlot]

\* os.path.exists of save/<name>.json
SaveExists(name) ==
    IF name \in DOMAIN RingFiles THEN ring[RingFiles[name]] # << >>
    ELSE saves[name] # << >>

\* the names save/ can be asked for
FileNames == SaveNames \cup DOMAIN RingFiles

\* (variant: the file is written whether or not the name is taken)
name_taken_ignored(name) == FALSE

\* api_registry.save_chat: data['filename'] in storage_manager.get_saved_chats()
name_taken(name) == SaveExists(name)

\* the dict chat_data of save_chat and force_save_chat; reading
\* chat_bot.memory_rounds raises AttributeError until load_chat has set it
chat_data ==
    [raised |-> memory_rounds = << >>,
     doc |-> SaveDoc(0, chat_history, current_prompt, memory_rounds)]

\* storage_manager.save_chat: the document is written to save/<name>.json
WriteSave(name, doc) ==
    IF name \in DOMAIN RingFiles
    THEN /\ ring' = [ring EXCEPT ![RingFiles[name]] = <<doc>>]
         /\ UNCHANGED saves
    ELSE /\ saves' = [saves EXCEPT ![name] = <<doc>>]
         /\ UNCHANGED ring

\* api_registry.save_chat: status exists when the name is in the list of
\* saves, otherwise the chat is written
SaveChat(name) ==
    /\ Enter("save_chat")
    /\ NoTurn
    /\ IF name_taken(name)
       THEN response' = "exists" /\ UNCHANGED <<saves, ring>>
       ELSE IF chat_data.raised
       THEN response' = "error" /\ UNCHANGED <<saves, ring>>
       ELSE response' = "success" /\ WriteSave(name, chat_data.doc)
    /\ UNCHANGED <<chat_history, current_prompt, prompt_config, api_key,
                   memory_rounds, prompts, config, pc, rotStep, ringBefore,
                   snapCount, crashes, stoppedAt>>

\* api_registry.force_save_chat: the chat is written without a look at the
\* list of saves
ForceSaveChat(name) ==
    /\ Enter("force_save_chat")
    /\ NoTurn
    /\ IF chat_data.raised
       THEN response' = "error" /\ UNCHANGED <<saves, ring>>
       ELSE response' = "success" /\ WriteSave(name, chat_data.doc)
    /\ UNCHANGED <<chat_history, current_prompt, prompt_config, api_key,
                   memory_rounds, prompts, config, pc, rotStep, ringBefore,
                   snapCount, crashes, stoppedAt>>

\* api_registry.delete_chat: storage_manager.delete_chat removes the file
\* when it exists
DeleteChat(name) ==
    /\ Enter("delete_chat")
    /\ NoTurn
    /\ IF SaveExists(name)
       THEN /\ response' = "success"
            /\ IF name \in DOMAIN RingFiles
               THEN /\ ring' = [ring EXCEPT ![RingFiles[name]] = << >>]
                    /\ UNCHANGED saves
               ELSE /\ saves' = [saves EXCEPT ![name] = << >>]
                    /\ UNCHANGED ring
       ELSE response' = "error" /\ UNCHANGED <<saves, ring>>
    /\ UNCHANGED <<chat_history, current_prompt, prompt_config, api_key,
                   memory_rounds, prompts, config, pc, rotStep, ringBefore,
                   snapCount, crashes, stoppedAt>>

\* ------------------------------------------------------- process lifetime
\* (variant: without autosave.json the start reads autosave_1.json)
Boot_fallback(ps, rg) ==
    LET first == load_prompt(ps, "default", BuiltinPrompt, "default")
        newest == IF rg[0] # << >> THEN rg[0] ELSE rg[1]
    IN  IF newest # << >>
        THEN [chat_history |-> newest[1].chat_history,
              lp |-> load_prompt(ps, newest[1].prompt_name,
                                 first.prompt_config, first.current_prompt)]
        ELSE [chat_history |-> << >>, lp |-> first]

\* ChatBot.__init__ followed by WebPlatform.start's load_auto_save: the key
\* comes from the config file, the persona is "default", and when
\* autosave.json exists ChatBot.load_chat installs its history and persona
Boot(ps, rg) ==
    LET first == load_prompt(ps, "default", BuiltinPrompt, "default")
    IN  IF rg[0] # << >>
        THEN [chat_history |-> rg[0][1].chat_history,
              lp |-> load_prompt(ps, rg[0][1].prompt_name,
                                 first.prompt_config, first.current_prompt)]
        ELSE [chat_history |-> << >>, lp |-> first]

\* the process stops at any point, between any two file operations, and is
\* started again; the files are what they were
Crash ==
    /\ crashes < MaxCrashes
    /\ crashes' = crashes + 1
    /\ stoppedAt' = pc
    /\ chat_history' = Boot(prompts, ring).chat_history
    /\ prompt_config' = Boot(prompts, ring).lp.prompt_config
    /\ current_prompt' = Boot(prompts, ring).lp.current_prompt
    /\ api_key' = config
    /\ memory_rounds' = << >>
    /\ pc' = "idle"
    /\ rotStep' = 0
    /\ NoTurn
    /\ op' = "boot"
    /\ histBefore' = << >>
    /\ response' = "none"
    /\ failedAt' = << >>
    /\ UNCHANGED <<disk, ringBefore, snapCount, budget>>

\* the state after a start on a fresh installation: two persona files and
\* one named save are in place, no autosave has been written; a key may have
\* been stored by an earlier run
Started(b) ==
    /\ prompts = InitialPrompts
    /\ config \in ApiKeys
    /\ saves = InitialSaves
    /\ ring = EmptyRing
    /\ chat_history = Boot(prompts, ring).chat_history
    /\ prompt_config = Boot(prompts, ring).lp.prompt_config
    /\ current_prompt = Boot(prompts, ring).lp.current_prompt
    /\ api_key = config
    /\ memory_rounds = << >>
    /\ pc = "idle"
    /\ rotStep = 0
    /\ user_input = << >>
    /\ request = << >>
    /\ lines = << >>
    /\ assistant_response = << >>
    /\ fragments = << >>
    /\ outcome = "none"
    /\ posted = FALSE
    /\ op = "boot"
    /\ histBefore = << >>
    /\ ringBefore = EmptyRing
    /\ snapCount = 0
    /\ budget = b
    /\ crashes = 0
    /\ stoppedAt = "none"
    /\ body = << >>
    /\ image_files = << >>
    /\ response = "none"
    /\ failedAt = << >>

\* ------------------------------------------------- the conversation engine
Init == Started(MaxOps)

Next ==
    \/ \E u \in UserInputs : StartTurn(u)
    \/ Resume
    \/ Abandon
    \/ RotateStep
    \/ ClearChat
    \/ \E n \in PromptNames : SetPrompt(n)
    \/ \E k \in ApiKeys : SetApiKey(k)
    \/ \E n \in SaveNames \cup AutosaveNames : ApiLoadChat(n)
    \/ \E n \in RoundsInputs : SetMemoryRounds(n)

Spec == Init /\ [][Next]_vars

\* ------------------------------------------------------- the autosave ring
InitAutosave == Started(MaxSnaps)

\* the personas the front end switches between in a run of the ring
RingPrompts == {"default", "aria"}

NextAutosave ==
    \/ ClearChat
    \/ \E n \in RingPrompts : SetPrompt(n)
    \/ RotateStep
    \/ Crash

SpecAutosave == InitAutosave /\ [][NextAutosave]_vars

\* ----------------------------------------------------- the persona catalog
InitPersona == Started(MaxPersonaOps)

NextPersona ==
    \/ \E n \in PromptNames : SetPrompt(n)
    \/ \E n \in PromptNames, d \in PromptDocs : SavePrompt(n, d)
    \/ \E o, n \in PromptNames : RenamePrompt(o, n)
    \/ RotateStep

SpecPersona == InitPersona /\ [][NextPersona]_vars

\* ------------------------- sessions with failing snapshots and restarts
InitSession == Started(MaxSessionOps)

NextSession ==
    \/ \E u \in UserInputs : StartTurn(u)
    \/ Resume
    \/ Abandon
    \/ ClearChat
    \/ \E n \in PromptNames : SetPrompt(n)
    \/ RotateStep
    \/ RotateFail
    \/ Crash

SpecSession == InitSession /\ [][NextSession]_vars

\* ------------------------------------------- the personas with removals
InitRemoval == Started(MaxRemovalOps)

NextRemoval ==
    \/ \E n \in PromptNames : SetPrompt(n)
    \/ \E n \in PromptNames, d \in PromptDocs : SavePrompt(n, d)
    \/ \E o, n \in PromptNames : RenamePrompt(o, n)
    \/ \E n \in PromptNames : DeletePrompt(n)
    \/ RotateStep

SpecRemoval == InitRemoval /\ [][NextRemoval]_vars

\* ---------------------------------------- the ring with files deleted by hand
InitRing == Started(MaxRingOps)

NextRing ==
    \/ ClearChat
    \/ RotateStep
    \/ \E n \in DOMAIN RingFiles : DeleteChat(n)

SpecRing == InitRing /\ [][NextRing]_vars

\* ------------------------------------------------------- the named saves
InitSaves == Started(MaxSaveOps)

NextSaves ==
    \/ \E n \in SaveNames \cup AutosaveNames : ApiLoadChat(n)
    \/ ClearChat
    \/ RotateStep
    \/ \E n \in FileNames : SaveChat(n)
    \/ \E n \in FileNames : ForceSaveChat(n)
    \/ \E n \in FileNames : DeleteChat(n)
    \/ \E n \in RoundsInputs : SetMemoryRounds(n)

SpecSaves == InitSaves /\ [][NextSaves]_vars

TypeOK ==
    /\ pc \in {"idle", "posted", "suspended", "imaging", "rotating"}
    /\ response \in {"none", "stream", "success", "error", "exists"}
    /\ Len(failedAt) <= 1
    /\ rotStep \in 0..LastStep
    /\ budget \in 0..(MaxOps + MaxSnaps + MaxPersonaOps + MaxSessionOps
                       + MaxRingOps + MaxSaveOps + MaxRemovalOps)

\* ===================================================================
\* Properties of the conversation engine (Spec)
\* ===================================================================
Min(a, b) == IF a < b THEN a ELSE b

Last(q) == q[Len(q)]

\* the last min(n, Len(h)) entries of h, none when n = 0
Window(h, n) == SubSeq(h, Len(h) - Min(n, Len(h)) + 1, Len(h))

HasSystem(req) == Len(req) > 0 /\ req[1].role = "system"

\* the messages of a request between the system message and the final user
\* message
Replayed(req) == SubSeq(req, IF HasSystem(req) THEN 2 ELSE 1, Len(req) - 1)

IsSuffix(a, b) == Len(a) <= Len(b) /\ a = SubSeq(b, Len(b) - Len(a) + 1, Len(b))

\* C1: once memory_rounds is set to n, the history replayed in the request of
\* a turn is the last min(n, m) entries of the m entries history held when
\* the turn began, oldest first (none when n = 0).
C1_MemoryWindow ==
    (posted /\ memory_rounds # << >>) =>
        Replayed(request) = Window(histBefore, memory_rounds[1])

\* C2 as stated: the final user message is pre_text, newline, the input,
\* newline, post_text.
C2_UserMessageNewlines ==
    posted =>
        Last(request).content =
            prompt_config.pre_text \o NL \o user_input \o NL \o prompt_config.post_text

\* C2 amended: the final user message of the request is pre_text, the input
\* and post_text joined without any separator.
C2_UserMessageConcat ==
    posted =>
        Last(request) =
            Turn("user", prompt_config.pre_text \o user_input \o prompt_config.post_text)

\* the example of C2 has happened: prefix "User: ", input "how are you",
\* empty suffix
C2_Witness ==
    /\ posted
    /\ prompt_config = AriaPrompt
    /\ user_input = s_how_are_you
    /\ Last(request).content = s_User \o s_how_are_you

\* C3: in the request of a turn the system message is present exactly when
\* the system prompt is not empty and is then first, the last message is the
\* one user message carrying the input, and the messages in between are
\* entries of the history as it stood before the turn began (a suffix of it),
\* so that the input is carried by one message only.
C3_RequestShape ==
    posted =>
        /\ HasSystem(request) <=> prompt_config.pre_prompt # << >>
        /\ \A i \in 2..Len(request) : request[i].role # "system"
        /\ Last(request).role = "user"
        /\ IsSuffix(Replayed(request), histBefore)

\* C4: a turn answered with a status other than 200 yields the error before
\* any text and leaves history as it was before the turn.
C4_UpstreamErrorNotCommitted ==
    (op = "turn" /\ outcome = "upstream_error") =>
        /\ fragments = <<Frag("error", "UpstreamError")>>
        /\ chat_history = histBefore

\* C5: a turn that fails while the response is read ends its fragments with
\* the error and leaves history as it was before the turn.
C5_TransportErrorNotCommitted ==
    (op = "turn" /\ outcome = "transport_error") =>
        /\ Last(fragments).kind = "error"
        /\ \A i \in 1..(Len(fragments) - 1) : fragments[i].kind = "text"
        /\ chat_history = histBefore

\* a turn is started by this step
TurnStarted == op' = "turn" /\ budget' # budget

\* C6: a turn started with an empty api key yields the MissingCredential
\* marker and nothing else, issues no POST, leaves history alone and begins
\* no autosave.
C6_MissingCredential ==
    [][(TurnStarted /\ api_key = << >>) =>
            /\ fragments' = <<Frag("error", "MissingCredential")>>
            /\ ~posted'
            /\ chat_history' = chat_history
            /\ ring' = ring
            /\ snapCount' = snapCount
            /\ pc' = "idle"]_vars

\* a turn has run with an empty key, after an earlier request
C6_Witness ==
    /\ op = "turn"
    /\ outcome = "missing_credential"
    /\ api_key = << >>
    /\ budget < MaxOps - 1
    /\ fragments = <<Frag("error", "MissingCredential")>>

\* C7: a turn whose consumer stops before the end commits nothing: history
\* is what it was before the turn and no autosave is begun.
C7_AbandonNotCommitted ==
    (op = "turn" /\ outcome = "abandoned") =>
        /\ chat_history = histBefore
        /\ pc = "idle"

\* ===================================================================
\* Properties of the autosave ring (SpecAutosave)
\* ===================================================================
Occupied(rg) == {i \in Slots : rg[i] # << >>}

Ids(rg) == {rg[i][1].id : i \in Occupied(rg)}

Holds(rg, i, n) == rg[i] # << >> /\ rg[i][1].id = n

\* C8: six snapshots after the empty ring, autosave holds the sixth state,
\* autosave_1..autosave_4 hold the fifth down to the second, and the first is
\* in no slot.
C8_SixSnapshots ==
    (crashes = 0 /\ snapCount = 6 /\ pc = "idle") =>
        /\ Holds(ring, 0, 6)
        /\ \A k \in 1..4 : Holds(ring, k, 6 - k)
        /\ 1 \notin Ids(ring)

\* C9: the ring never occupies more than five files.
C9_AtMostFiveSlots == Cardinality(Occupied(ring)) <= 5

\* the states held before the rotation began that no slot holds now
Lost == Ids(ringBefore) \ Ids(ring)

\* the rotation is between two of its steps, or the process stopped there
MidRotation ==
    \/ pc = "rotating" /\ rotStep > 0
    \/ op = "boot" /\ stoppedAt = "rotating"

\* C10: wherever a rotation stops, the only state held before it began that
\* may be gone is the one of the oldest file.
C10_AtMostOneLost ==
    MidRotation =>
        /\ Cardinality(Lost) <= 1
        /\ Lost \subseteq Ids([ringBefore EXCEPT ![0] = << >>, ![1] = << >>,
                                                 ![2] = << >>, ![3] = << >>,
                                                 ![4] = << >>])

\* the process stopped inside a rotation that had removed the oldest file
C10_Witness ==
    /\ op = "boot"
    /\ stoppedAt = "rotating"
    /\ Cardinality(Lost) = 1
    /\ Cardinality(Ids(ringBefore)) = 6

\* ===================================================================
\* Properties of sessions with failing snapshots and restarts (SpecSession)
\* ===================================================================
\* C11: a start reads autosave.json only: without that file the history is
\* empty and the persona is the one of a fresh start, whatever the numbered
\* files hold; with it, the history is the one of that file.
C11_LoadLatestCurrentOnly ==
    op = "boot" =>
        IF ring[0] = << >>
        THEN /\ chat_history = << >>
             /\ current_prompt = "default"
             /\ prompt_config = BuiltinPrompt
        ELSE chat_history = ring[0][1].chat_history

\* the process started without autosave.json while autosave_1.json held a
\* conversation
C11_Witness ==
    /\ op = "boot"
    /\ crashes > 0
    /\ ring[0] = << >>
    /\ ring[1] # << >>
    /\ ring[1][1].chat_history # << >>
    /\ chat_history = << >>

NoErrorFragment(frags) == \A i \in DOMAIN frags : frags[i].kind # "error"

\* C12: when a file operation of the snapshot taken at the end of a turn
\* fails, the turn is completed without an error fragment, the user and the
\* assistant turn are in the history, and the engine takes the next request.
C12_SnapshotFailureSwallowed ==
    (op = "turn" /\ failedAt # << >>) =>
        /\ pc = "idle"
        /\ outcome = "completed"
        /\ NoErrorFragment(fragments)
        /\ chat_history =
              histBefore \o <<Turn("user", user_input),
                              Turn("assistant", assistant_response)>>

\* the write of autosave.json failed at the end of a turn that had yielded
\* text
C12_Witness ==
    /\ op = "turn"
    /\ failedAt = <<LastStep>>
    /\ fragments # << >>
    /\ ring[0] = << >>

\* C13: once the snapshot after a completed turn or a clear is written,
\* autosave.json holds the whole history, the active persona name and
\* memory_rounds of the engine.
C13_SnapshotHoldsState ==
    (pc = "idle" /\ failedAt = << >>
     /\ (op = "clear" \/ (op = "turn" /\ outcome = "completed"))) =>
        /\ ring[0] # << >>
        /\ ring[0][1].chat_history = chat_history
        /\ ring[0][1].prompt_name = current_prompt
        /\ ring[0][1].memory_rounds = memory_rounds

\* ===================================================================
\* Properties of the persona catalog (SpecPersona)
\* ===================================================================
\* the file prompts/<name>.json exists and json.load reads it
Loadable(ps, name) == Exists(ps, name) /\ json_load(ps[name][1]).ok

C15_PersonaRoundTrip ==
    [][\A name \in PromptNames, d \in PromptDocs :
          (op' = "save_prompt" /\ SavePrompt(name, d)) =>
              LET lp == load_prompt(prompts', name, prompt_config',
                                    current_prompt')
              IN  /\ lp.ok
                  /\ lp.prompt_config = d
                  /\ lp.current_prompt = name]_vars

\* the two-line persona was saved over the file of persona lore and then
\* made the active persona
C15_Witness ==
    /\ op = "set_prompt"
    /\ response = "success"
    /\ current_prompt = "lore"
    /\ prompt_config = VersePrompt

\* C16: a rename succeeds exactly when the old name exists and the new one
\* does not; then the new name holds the file of the old one, the old name
\* is gone and no other file changed; otherwise it reports an error and the
\* catalog is what it was.
C16_RenameNoOverwrite ==
    [][\A old_name, new_name \in PromptNames :
          (op' = "rename_prompt" /\ RenamePrompt(old_name, new_name)) =>
              IF Exists(prompts, old_name) /\ ~Exists(prompts, new_name)
              THEN /\ response' = "success"
                   /\ prompts'[new_name] = prompts[old_name]
                   /\ prompts'[old_name] = << >>
                   /\ \A n \in PromptNames \ {old_name, new_name} :
                          prompts'[n] = prompts[n]
              ELSE /\ response' = "error"
                   /\ prompts' = prompts]_vars

\* persona aria was renamed to default_prompt, and a later rename onto an
\* existing name was refused
C16_Witness ==
    /\ op = "rename_prompt"
    /\ response = "error"
    /\ prompts["aria"] = << >>
    /\ prompts["default_prompt"] = <<json_dump(AriaPrompt)>>
    /\ prompts["bare"] = <<json_dump(BarePrompt)>>
    /\ prompts["lore"] = <<json_dump(LorePrompt)>>

\* ===================================================================
\* Properties of the fragments and of the history (Spec)
\* ===================================================================
\* the fragments of one kind, in the order they were yielded
OfKind(frags, k) == SelectSeq(frags, LAMBDA f : f.kind = k)

TextOf(frags) == [i \in DOMAIN frags |-> frags[i].text]

\* the image files of resource/ whose name occurs in resp, in directory
\* order
ImagesNamedIn(resp) ==
    SelectSeq(ResourceDir,
              LAMBDA file : /\ \E x \in ImageSuffixes : endswith(lower(file), x)
                            /\ Contains(resp, file))

\* no fragment of another kind follows an image fragment
ImagesLast(frags) ==
    \A i, j \in DOMAIN frags :
        (i < j /\ frags[i].kind = "image") => frags[j].kind = "image"

RECURSIVE JoinLines(_)
JoinLines(parts) ==
    IF parts = << >> THEN << >>
    ELSE IF Len(parts) = 1 THEN parts[1]
    ELSE parts[1] \o NL \o JoinLines(Tail(parts))

LastAssistant(hist) ==
    LET a == SelectSeq(hist, LAMBDA t : t.role = "assistant")
    IN  IF a = << >> THEN << >> ELSE a[Len(a)].content

Corpus(rule, cfg, u, hist) ==
    JoinLines((IF "pre_prompt" \in rule.key_region THEN <<cfg.pre_prompt>> ELSE << >>)
              \o (IF "user_input" \in rule.key_region THEN <<u>> ELSE << >>)
              \o (IF "last_assistant" \in rule.key_region
                  THEN <<LastAssistant(hist)>> ELSE << >>))

Fires(rule, corpus) ==
    IF rule.key_mode = "and"
    THEN \A k \in rule.keys : Contains(corpus, k)
    ELSE \E k \in rule.keys : Contains(corpus, k)

\* the text of the request that a target region ends up in
TargetText(req, region) ==
    IF region = "pre_prompt"
    THEN IF HasSystem(req) THEN req[1].content ELSE << >>
    ELSE Last(req).content

\* C18: in the request of a turn, the value of every world rule of the
\* active persona that fires on its corpus is in each of its target
\* regions, and the value of a rule that does not fire is in none.
C18_WorldRulesInject ==
    (posted /\ "world_book" \in DOMAIN prompt_config) =>
        \A i \in DOMAIN prompt_config.world_book :
            LET rule == prompt_config.world_book[i]
            IN  \A region \in rule.value_region :
                    Fires(rule, Corpus(rule, prompt_config, user_input, histBefore))
                    <=> Contains(TargetText(request, region), rule.value)

\* C19: between requests the history is made of complete exchanges: its
\* length is even and its entries alternate user, assistant.
C19_CompleteExchanges ==
    pc = "idle" =>
        /\ Len(chat_history) % 2 = 0
        /\ \A i \in DOMAIN chat_history :
              chat_history[i].role = IF i % 2 = 1 THEN "user" ELSE "assistant"

\* the deltas of the content lines before the first [DONE] line
RECURSIVE DeltasBeforeDone(_)
DeltasBeforeDone(ls) ==
    IF ls = << >> \/ Head(ls).kind = "done" THEN << >>
    ELSE IF Head(ls).kind = "content"
         THEN <<Head(ls).delta>> \o DeltasBeforeDone(Tail(ls))
    ELSE DeltasBeforeDone(Tail(ls))

RECURSIVE Concat(_)
Concat(strs) == IF strs = << >> THEN << >> ELSE Head(strs) \o Concat(Tail(strs))

IsPrefix(a, b) == Len(a) <= Len(b) /\ a = SubSeq(b, 1, Len(a))

\* C20: the text fragments of a turn are, in order, deltas of the content
\* lines that precede the first [DONE] of the response, all of them once
\* the loop has ended; the accumulated response is their concatenation.
C20_FragmentsFollowStream ==
    (op = "turn" /\ posted) =>
        LET got == TextOf(OfKind(fragments, "text"))
        IN  /\ IsPrefix(got, DeltasBeforeDone(body))
            /\ assistant_response = Concat(got)
            /\ (outcome = "completed" \/ pc = "imaging")
                  => got = DeltasBeforeDone(body)

\* a turn completed on a response that carries a content line after [DONE]
C20_Witness ==
    /\ op = "turn"
    /\ outcome = "completed"
    /\ \E i, j \in DOMAIN body :
          i < j /\ body[i].kind = "done" /\ body[j].kind = "content"
    /\ Last(chat_history) = Turn("assistant", << >>)

\* ------------------------------------------------------------------ C21
\* the larger of 0 and n
NonNegative(n) == IF n < 0 THEN 0 ELSE n

\* C21: a memory_rounds/set request with the value n stores max(0, n) as the
\* memory rounds at once (the claim as stated; the handler calls a method
\* ChatBot does not have, answers error and stores nothing)
C21_SetStoresClamped ==
    [][\A n \in RoundsInputs :
          (op' = "set_memory_rounds" /\ SetMemoryRounds(n))
              => memory_rounds' = <<NonNegative(n)>>]_vars

\* ------------------------------------------------------------------ C22
\* the slots of rg hold snapshots from the most recent to the oldest
NewestFirst(rg) ==
    \A i, j \in Occupied(rg) : i < j => rg[i][1].id > rg[j][1].id

\* the last step of a rotation, taken by the process that began it and
\* without an exception
RotationCompletes ==
    /\ pc = "rotating"
    /\ rotStep = LastStep
    /\ pc' = "idle"
    /\ crashes' = crashes
    /\ failedAt' = failedAt

\* C22: the step that completes a rotation leaves autosave.json with the
\* state of the chat, and every slot i+1 with what slot i held when the
\* rotation began; the slots run from the most recent to the oldest, and
\* the only snapshot that is gone is the one autosave_5.json held.
C22_RotationShiftsByOne ==
    [][RotationCompletes =>
          /\ ring'[0] = <<save_data(snapCount)>>
          /\ \A i \in 0..(OldestSlot - 1) : ring'[i + 1] = ringBefore[i]
          /\ NewestFirst(ring')
          /\ Ids(ring') =
                {snapCount} \cup
                {ringBefore[i][1].id :
                    i \in Occupied(ringBefore) \ {OldestSlot}}]_vars

\* a rotation that began with all six files is over: the snapshot that
\* was autosave.json is autosave_1.json, the new one is autosave.json
C22_Witness ==
    /\ pc = "idle"
    /\ op = "clear"
    /\ Occupied(ringBefore) = Slots
    /\ Occupied(ring) = Slots
    /\ Holds(ring, 0, snapCount)
    /\ ring[1] = ringBefore[0]
    /\ ringBefore[OldestSlot][1].id \notin Ids(ring)

\* ------------------------------------------------------------------ C23
\* the lines of a response without those whose payload is not JSON
WellFormed(ls) == SelectSeq(ls, LAMBDA l : l.kind # "malformed")

\* a line whose payload is not JSON comes before the first [DONE]
MalformedBeforeDone(ls) ==
    \E i \in DOMAIN ls :
        /\ ls[i].kind = "malformed"
        /\ \A j \in 1..i : ls[j].kind # "done"

\* C23: in a turn whose response has a data line that is not JSON, that
\* line gives no fragment and changes nothing of the accumulated response:
\* the fragments are those of the response without the line, none reports
\* an error while the stream is read, and the turn that completes has
\* yielded every delta before [DONE] and appended their concatenation as
\* the assistant entry.
C23_MalformedLineSkipped ==
    (op = "turn" /\ posted /\ MalformedBeforeDone(body)) =>
        LET got == TextOf(OfKind(fragments, "text"))
            want == DeltasBeforeDone(WellFormed(body))
        IN  /\ IsPrefix(got, want)
            /\ assistant_response = Concat(got)
            /\ outcome = "running" => OfKind(fragments, "error") = << >>
            /\ outcome = "completed" =>
                  /\ OfKind(fragments, "error") = << >>
                  /\ got = want
                  /\ Last(chat_history) = Turn("assistant", Concat(want))

\* a completed turn whose response had a line that is not JSON between two
\* content lines: both deltas are in the assistant entry
C23_Witness ==
    /\ op = "turn"
    /\ outcome = "completed"
    /\ \E i, j, k \in DOMAIN body :
          /\ i < j /\ j < k
          /\ body[i].kind = "content"
          /\ body[j].kind = "malformed"
          /\ body[k].kind = "content"
          /\ \A m \in 1..k : body[m].kind # "done"
          /\ Last(chat_history) =
                Turn("assistant", body[i].delta \o body[k].delta)

\* ------------------------------------------------------------------ C24
\* C24: when the stream of a turn has ended, at [DONE] or at the end of the
\* response, the history is the one before the turn with two entries
\* appended: the user entry holds the input as it was sent by the user,
\* without pre_text and post_text, and the assistant entry holds the text
\* fragments of the turn concatenated in order, image fragments left out.
C24_CommittedExchange ==
    (op = "turn" /\ outcome = "completed") =>
        chat_history =
            histBefore \o
            <<Turn("user", user_input),
              Turn("assistant", Concat(TextOf(OfKind(fragments, "text"))))>>

\* a turn under a persona with a prefix has ended at the end of a response
\* without [DONE], and image fragments have followed the text
C24_Witness ==
    /\ op = "turn"
    /\ outcome = "completed"
    /\ pc = "idle"
    /\ prompt_config.pre_text # << >>
    /\ \A i \in DOMAIN body : body[i].kind # "done"
    /\ OfKind(fragments, "image") # << >>
    /\ Len(OfKind(fragments, "text")) = 2
    /\ Len(chat_history) = Len(histBefore) + 2

\* ------------------------------------------------------------------ C25
\* the step is one of a request other than save/load
LocalStep == op' \notin {"load_chat", "boot"}

\* the step is the handler of chat/clear
ClearStep == op' = "clear" /\ budget' # budget

\* C25: a step of a turn, of chat/clear, of a persona request, of
\* memory_rounds/set or of api_key/set keeps the entries of the history as
\* a prefix of the new history, except the step of chat/clear, which
\* leaves the history empty and keeps the active persona name, the memory
\* rounds and the API key.
C25_AppendOnlyOrClear ==
    [][LocalStep =>
          /\ ~ClearStep => IsPrefix(chat_history, chat_history')
          /\ ClearStep =>
                /\ chat_history' = << >>
                /\ current_prompt' = current_prompt
                /\ memory_rounds' = memory_rounds
                /\ api_key' = api_key]_vars

\* chat/clear has emptied a history of several entries under a persona
\* that is not the default, with memory rounds and a key set
C25_Witness ==
    /\ op = "clear"
    /\ Len(histBefore) >= 2
    /\ chat_history = << >>
    /\ current_prompt = "aria"
    /\ memory_rounds # << >>
    /\ api_key # << >>

\* ------------------------------------------------------------------ C26
\* the generator of a turn is between its first line and its return
TurnInFlight ==
    \/ pc \in {"posted", "suspended", "imaging"}
    \/ pc = "rotating" /\ op = "turn"

Readable(n) == Exists(prompts, n) /\ json_load(prompts[n][1]).ok

\* the handler of prompt/set has answered with status error
SetPromptFails == op' = "set_prompt" /\ budget' # budget /\ response' = "error"

\* C27 as stated: a prompt/set request that answers error leaves the
\* active persona name and the loaded configuration as they were and takes
\* no snapshot.
C27_ErrorLeavesPersona ==
    [][SetPromptFails =>
          /\ current_prompt' = current_prompt
          /\ prompt_config' = prompt_config
          /\ snapCount' = snapCount]_vars

\* C27 amended: a prompt/set request that answers error takes no snapshot
\* and touches no file. When the named file is missing, the active persona
\* becomes "default" with the document of default_prompt.json, or with the
\* built-in configuration when that file is missing as well; when the
\* named file, or the default file reached this way, cannot be parsed, the
\* name and the configuration stay as they were.
C27_ErrorFallsBackNoSnapshot ==
    [][\A name \in PromptNames :
          (op' = "set_prompt" /\ SetPrompt(name)) =>
              /\ response' = "error" <=> ~Readable(name)
              /\ response' = "error" =>
                    /\ snapCount' = snapCount
                    /\ pc' = "idle"
                    /\ disk' = disk
                    /\ IF Exists(prompts, name)
                          \/ (Exists(prompts, "default_prompt")
                              /\ ~Readable("default_prompt"))
                       THEN /\ current_prompt' = current_prompt
                            /\ prompt_config' = prompt_config
                       ELSE /\ current_prompt' = "default"
                            /\ prompt_config' =
                                  IF Exists(prompts, "default_prompt")
                                  THEN json_load(
                                           prompts["default_prompt"][1]).doc
                                  ELSE BuiltinPrompt]_vars

\* prompt/set has answered error and the active persona is the default,
\* while autosave.json still names the persona that was active before
C27_Witness ==
    /\ op = "set_prompt"
    /\ response = "error"
    /\ pc = "idle"
    /\ current_prompt = "default"
    /\ Holds(ring, 0, snapCount)
    /\ ring[0][1].prompt_name = "aria"

\* ------------------------------------------------------------------ C28
\* the step is a rename of auto_save: one of the loop or the one of
\* autosave.json
RenameStep == pc = "rotating" /\ rotStep \in 1..OldestSlot /\ pc' = "rotating"

\* C28: whatever files the rotation began with, a rename of the rotation
\* gives a file only to a slot that had none at that moment: no file is
\* replaced by a rename.
C28_RenameIntoEmptySlot ==
    [][RenameStep =>
          \A i \in Slots :
              (ring'[i] # ring[i] /\ ring'[i] # << >>) => ring[i] = << >>]_vars

\* a rotation that began with autosave_2.json missing and all other files
\* present has done its renames: autosave_5.json holds what autosave_4.json
\* held, autosave_3.json is now the missing one
C28_Witness ==
    /\ pc = "rotating"
    /\ rotStep = LastStep
    /\ Occupied(ringBefore) = Slots \ {2}
    /\ Occupied(ring) = Slots \ {0, 3}
    /\ ring[OldestSlot] = ringBefore[OldestSlot - 1]
    /\ ring[1] = ringBefore[0]

\* ------------------------------------------------------------------ C29
\* C29 as stated: after a prompt/delete or prompt/rename request that
\* answers success, the active persona name is not the name that was
\* removed: deleting the active persona makes "default" the active one,
\* renaming the active persona makes the new name the active one, and a
\* request on another persona leaves name and configuration as they were.
C29_ActiveNeverRemoved ==
    [][/\ \A name \in PromptNames :
             (op' = "delete_prompt" /\ DeletePrompt(name)
                 /\ response' = "success") =>
                 /\ current_prompt' # name
                 /\ current_prompt = name => current_prompt' = "default"
                 /\ current_prompt # name =>
                       /\ current_prompt' = current_prompt
                       /\ prompt_config' = prompt_config
       /\ \A old_name, new_name \in PromptNames :
             (op' = "rename_prompt" /\ RenamePrompt(old_name, new_name)
                 /\ response' = "success") =>
                 /\ current_prompt' # old_name
                 /\ current_prompt = old_name => current_prompt' = new_name
                 /\ current_prompt # old_name =>
                       /\ current_prompt' = current_prompt
                       /\ prompt_config' = prompt_config]_vars

\* ------------------------------------------------------------------ C30
\* the document of save/<name>.json, << >> when there is no such file
FileOf(rg, sv, name) ==
    IF name \in DOMAIN RingFiles THEN rg[RingFiles[name]] ELSE sv[name]

\* C30: a save request for a name that has a file answers exists and
\* leaves every file of save/ as it was, and a save request writes a file
\* only under a name that had none; a save/force request for such a name
\* replaces the document by the current chat.
C30_SaveNeverOverwrites ==
    [][/\ \A name \in FileNames :
             (op' = "save_chat" /\ SaveChat(name)) =>
                 /\ SaveExists(name) =>
                       /\ response' = "exists"
                       /\ saves' = saves
                       /\ ring' = ring
                 /\ response' = "success" =>
                       /\ ~SaveExists(name)
                       /\ FileOf(ring', saves', name) = <<chat_data.doc>>
       /\ \A name \in FileNames :
             (op' = "force_save_chat" /\ ForceSaveChat(name)
                 /\ response' = "success") =>
                 FileOf(ring', saves', name) = <<chat_data.doc>>]_vars

\* a save request has found the name taken by a document that is not the
\* current chat, and has left it
C30_Witness ==
    /\ op = "save_chat"
    /\ response = "exists"
    /\ memory_rounds # << >>
    /\ saves["aria_chat"] = <<AriaChat>>
    /\ chat_history # AriaChat.chat_history

====
